---- MODULE Spec2Model ----
(***************************************************************************)
(* hyprspace: a terminal launcher for workspace-*.sh scripts.              *)
(*                                                                         *)
(* The model follows one process run of main (src/src/main.rs):            *)
(*   ensure_workspace_dir -> list_workspaces -> run_tui ->                 *)
(*   launch_script | create_new_script -> process exit.                    *)
(* Strings are sequences of one-character strings, so that prefix, suffix, *)
(* trimming, splitting, parsing and formatting are computed as the code    *)
(* computes them.                                                          *)
(***************************************************************************)
EXTENDS Integers, Sequences, FiniteSets, TLC

(***************************************************************************)
(* Bounds of the model                                                     *)
(***************************************************************************)
\* events (keys, non-key events, poll timeouts) that keep the UI loop running
MaxEvents == 3
\* rejected answers (bad number, empty line) the generator's prompts re-ask
MaxRetries == 1
\* window rule blocks added in one run of the generator
MaxWindows == 1

\* items in the directory the listing is examined on
MaxDirItems == 4

(***************************************************************************)
(* Strings                                                                 *)
(***************************************************************************)
Digits == <<"0", "1", "2", "3", "4", "5", "6", "7", "8", "9">>

\* byte value of the characters the model uses (str::cmp is bytewise)
Code(c) ==
    CASE c = "\t" -> 9 [] c = "\n" -> 10 [] c = " " -> 32 [] c = "!" -> 33 [] c = "\"" -> 34
      [] c = "#" -> 35 [] c = "$" -> 36 [] c = "%" -> 37 [] c = "(" -> 40
      [] c = ")" -> 41 [] c = "*" -> 42 [] c = "+" -> 43 [] c = "-" -> 45
      [] c = "." -> 46 [] c = "/" -> 47
      [] c = "0" -> 48 [] c = "1" -> 49 [] c = "2" -> 50 [] c = "3" -> 51
      [] c = "4" -> 52 [] c = "5" -> 53 [] c = "6" -> 54 [] c = "7" -> 55
      [] c = "8" -> 56 [] c = "9" -> 57 [] c = ";" -> 59
      [] c = "W" -> 87 [] c = "[" -> 91 [] c = "\\" -> 92 [] c = "]" -> 93
      [] c = "_" -> 95
      [] c = "a" -> 97 [] c = "b" -> 98 [] c = "c" -> 99 [] c = "d" -> 100
      [] c = "e" -> 101 [] c = "f" -> 102 [] c = "g" -> 103 [] c = "h" -> 104
      [] c = "i" -> 105 [] c = "k" -> 107 [] c = "l" -> 108 [] c = "m" -> 109
      [] c = "n" -> 110 [] c = "o" -> 111 [] c = "p" -> 112 [] c = "r" -> 114
      [] c = "s" -> 115 [] c = "t" -> 116 [] c = "u" -> 117 [] c = "v" -> 118
      [] c = "w" -> 119 [] c = "x" -> 120 [] c = "y" -> 121 [] c = "z" -> 122
      [] c = "{" -> 123 [] c = "}" -> 125

\* Option<T>: None is the empty tuple, Some(x) the one-element tuple
None == <<>>
Some(x) == <<x>>

\* str::starts_with
StartsWith(s, p) ==
    /\ Len(p) <= Len(s)
    /\ SubSeq(s, 1, Len(p)) = p

\* str::ends_with
EndsWith(s, p) ==
    /\ Len(p) <= Len(s)
    /\ SubSeq(s, Len(s) - Len(p) + 1, Len(s)) = p

\* char::is_whitespace, on the characters of the model
IsWhitespace(c) == c \in {" ", "\t", "\n"}

RECURSIVE TrimStart(_)
TrimStart(s) ==
    IF s # <<>> /\ IsWhitespace(Head(s)) THEN TrimStart(Tail(s)) ELSE s

RECURSIVE TrimEnd(_)
TrimEnd(s) ==
    IF s # <<>> /\ IsWhitespace(s[Len(s)])
    THEN TrimEnd(SubSeq(s, 1, Len(s) - 1))
    ELSE s

\* str::trim
Trim(s) == TrimEnd(TrimStart(s))

\* str::trim_end_matches(pat): removes the suffix repeatedly
RECURSIVE TrimEndMatches(_, _)
TrimEndMatches(s, pat) ==
    IF pat # <<>> /\ EndsWith(s, pat)
    THEN TrimEndMatches(SubSeq(s, 1, Len(s) - Len(pat)), pat)
    ELSE s

\* str::strip_prefix(p).unwrap_or(s)
StripPrefixOr(s, p) ==
    IF StartsWith(s, p) THEN SubSeq(s, Len(p) + 1, Len(s)) ELSE s

\* the k-th smallest element of a set of integers
Kth(S, k) == CHOOSE i \in S : Cardinality({j \in S : j < i}) = k - 1

\* str::lines: split at "\n", no empty last line after a final "\n"
Lines(s) ==
    LET breaks == {i \in 1..Len(s) : s[i] = "\n"}
        n == Cardinality(breaks)
                + (IF s # <<>> /\ s[Len(s)] # "\n" THEN 1 ELSE 0)
        first(k) == IF k = 1 THEN 1 ELSE Kth(breaks, k - 1) + 1
        last(k) == IF k <= Cardinality(breaks) THEN Kth(breaks, k) - 1 ELSE Len(s)
    IN  [k \in 1..n |-> SubSeq(s, first(k), last(k))]

\* str::split_whitespace: the non-empty maximal runs of non-whitespace
SplitWhitespace(s) ==
    LET starts == {i \in 1..Len(s) :
                      ~IsWhitespace(s[i]) /\ (i = 1 \/ IsWhitespace(s[i - 1]))}
        ends == {i \in 1..Len(s) :
                      ~IsWhitespace(s[i]) /\ (i = Len(s) \/ IsWhitespace(s[i + 1]))}
    IN  [k \in 1..Cardinality(starts) |-> SubSeq(s, Kth(starts, k), Kth(ends, k))]

DigitVal(c) == Code(c) - 48

IsDigit(c) == \E i \in 1..Len(Digits) : Digits[i] = c

RECURSIVE DigitsValue(_, _)
DigitsValue(s, acc) ==
    IF s = <<>> THEN acc ELSE DigitsValue(Tail(s), acc * 10 + DigitVal(Head(s)))

RECURSIVE StripZeros(_)
StripZeros(s) ==
    IF s # <<>> /\ Head(s) = "0" THEN StripZeros(Tail(s)) ELSE s

\* u32::MAX, 4294967295, in decimal digits
U32MaxDigits == <<"4", "2", "9", "4", "9", "6", "7", "2", "9", "5">>

\* same-length digit strings: a <= b
RECURSIVE DigitsLeq(_, _)
DigitsLeq(a, b) ==
    IF a = <<>> THEN TRUE
    ELSE IF Head(a) # Head(b) THEN DigitVal(Head(a)) < DigitVal(Head(b))
    ELSE DigitsLeq(Tail(a), Tail(b))

\* whether a digit string denotes a value that fits 32 bits
FitsU32(body) ==
    LET d == StripZeros(body)
    IN  \/ Len(d) < Len(U32MaxDigits)
        \/ Len(d) = Len(U32MaxDigits) /\ DigitsLeq(d, U32MaxDigits)

\* str::parse::<u32>: an optional "+", then one or more decimal digits, and
\* the value must fit 32 bits; None stands for Err
ParseU32(s) ==
    LET body == IF s # <<>> /\ Head(s) = "+" THEN Tail(s) ELSE s
    IN  IF body = <<>> \/ \E i \in 1..Len(body) : ~IsDigit(body[i])
        THEN None
        ELSE IF ~FitsU32(body) THEN None
        ELSE Some(DigitsValue(body, 0))

\* format!("{}", n) of an unsigned integer
RECURSIVE FmtNum(_)
FmtNum(n) ==
    IF n < 10 THEN <<Digits[n + 1]>> ELSE Append(FmtNum(n \div 10), Digits[(n % 10) + 1])

\* Ord for str: bytewise lexicographic, a proper prefix is smaller
RECURSIVE StrLess(_, _)
StrLess(a, b) ==
    IF b = <<>> THEN FALSE
    ELSE IF a = <<>> THEN TRUE
    ELSE IF Code(Head(a)) # Code(Head(b)) THEN Code(Head(a)) < Code(Head(b))
    ELSE StrLess(Tail(a), Tail(b))

(***************************************************************************)
(* Files of the workspace directory                                        *)
(***************************************************************************)
NL == <<"\n">>

WS_PREFIX == <<"w", "o", "r", "k", "s", "p", "a", "c", "e", "-">>

SH_SUFFIX == <<".", "s", "h">>

DISPATCH == <<"h", "y", "p", "r", "c", "t", "l", " ",
              "d", "i", "s", "p", "a", "t", "c", "h", " ",
              "w", "o", "r", "k", "s", "p", "a", "c", "e">>

SHEBANG == <<"#", "!", "/", "b", "i", "n", "/", "b", "a", "s", "h">>

\* a script with a commented-out directive, a directive whose last token does
\* not parse, and an indented directive with trailing blanks
ContentA ==
    SHEBANG \o NL \o NL
    \o <<"#", " ">> \o DISPATCH \o <<" ", "9">> \o NL
    \o DISPATCH \o <<" ", "a", "b", "c">> \o NL
    \o <<" ", " ">> \o DISPATCH \o <<" ", "3", " ", " ">> \o NL

\* a script with no directive
ContentB == SHEBANG \o NL

FileA == [name |-> WS_PREFIX \o <<"a">> \o SH_SUFFIX, kind |-> "file",
          readable |-> TRUE, content |-> ContentA, mode |-> "755"]

FileB == [name |-> WS_PREFIX \o <<"b">> \o SH_SUFFIX, kind |-> "file",
          readable |-> TRUE, content |-> ContentB, mode |-> "755"]

\* a file whose extension only starts with .sh
FileX == [name |-> WS_PREFIX \o <<"x">> \o SH_SUFFIX \o <<"x">>, kind |-> "file",
          readable |-> TRUE, content |-> ContentA, mode |-> "644"]

\* a directory with a qualifying name
DirC == [name |-> WS_PREFIX \o <<"c">> \o SH_SUFFIX, kind |-> "dir",
         readable |-> FALSE, content |-> <<>>, mode |-> "755"]

\* the items a workspace directory may hold when the program starts
Universe == {FileA, FileB, FileX, DirC}

\* directives that never yield a number: a word, a value beyond u32, a comment
ContentD ==
    DISPATCH \o <<" ", "a", "b", "c">> \o NL
    \o DISPATCH \o <<" ", "9", "9", "9", "9", "9", "9", "9", "9", "9", "9", "9">> \o NL
    \o <<"#">> \o DISPATCH \o <<" ", "9">> \o NL

\* two directives that parse, the first with further tokens before the last
ContentE ==
    DISPATCH \o <<" ", "5", " ", "s", "i", "l", "e", "n", "t", " ", "7">> \o NL
    \o DISPATCH \o <<" ", "6">> \o NL

\* a file whose name differs from the prefix in case only
FileUpper == [name |-> <<"W">> \o Tail(WS_PREFIX) \o <<"x">> \o SH_SUFFIX,
              kind |-> "file", readable |-> TRUE, content |-> ContentA,
              mode |-> "755"]

\* a qualifying file that read_to_string cannot read
FileU == [name |-> WS_PREFIX \o <<"u">> \o SH_SUFFIX, kind |-> "file",
          readable |-> FALSE, content |-> ContentA, mode |-> "000"]

FileD == [name |-> WS_PREFIX \o <<"d">> \o SH_SUFFIX, kind |-> "file",
          readable |-> TRUE, content |-> ContentD, mode |-> "755"]

\* a file whose name ends with the extension twice
FileE == [name |-> WS_PREFIX \o <<"e">> \o SH_SUFFIX \o SH_SUFFIX, kind |-> "file",
          readable |-> TRUE, content |-> ContentE, mode |-> "755"]

\* the items the listing is examined on
ListUniverse == Universe \cup {FileUpper, FileU, FileD, FileE}

\* Path::exists for a name inside the workspace directory
PathExists(fs, name) == \E f \in fs : f.name = name

\* Path::is_file
IsFile(f) == f.kind = "file"

\* the orders in which fs::read_dir may yield the items of the directory
Orders(fs) ==
    { o \in [1..Cardinality(fs) -> fs] :
        \A i, j \in 1..Cardinality(fs) : i # j => o[i] # o[j] }

(***************************************************************************)
(* workspace.rs: parse_workspace_num and list_workspaces                   *)
(***************************************************************************)
\* the lines the scan does not skip and that carry the directive prefix
IsDirective(line) ==
    LET trimmed == Trim(line)
    IN  /\ trimmed # <<>>
        /\ ~StartsWith(trimmed, <<"#">>)
        /\ StartsWith(trimmed, DISPATCH)

\* one line of the scan: Some(num) when the loop returns at this line
ScanLine(line) ==
    LET trimmed == Trim(line)
        parts == SplitWhitespace(trimmed)
    IN  IF trimmed = <<>> \/ StartsWith(trimmed, <<"#">>) THEN None
        ELSE IF StartsWith(trimmed, DISPATCH) /\ parts # <<>>
                THEN ParseU32(parts[Len(parts)])
                ELSE None

\* the loop over content.lines() from line i on: a line that yields a number
\* returns it, every other line falls through to the next iteration
RECURSIVE ScanFrom(_, _)
ScanFrom(ls, i) ==
    IF i > Len(ls) THEN None
    ELSE IF ScanLine(ls[i]) # None THEN ScanLine(ls[i])
    ELSE ScanFrom(ls, i + 1)

\* variant: a directive line whose last token does not parse ends the scan
ScanLines_StopsAtBadToken(ls) ==
    LET bad == {i \in 1..Len(ls) : IsDirective(ls[i]) /\ ScanLine(ls[i]) = None}
    IN  IF bad # {} /\ \A i \in 1..Kth(bad, 1) : ScanLine(ls[i]) = None
        THEN None
        ELSE ScanFrom(ls, 1)

\* the loop over content.lines(), and the None after it
ScanLines(ls) == ScanFrom(ls, 1)

\* parse_workspace_num of a file: None when the file cannot be read as text
parse_workspace_num(f) ==
    IF ~f.readable THEN None ELSE ScanLines(Lines(f.content))

\* variant: the filter without the is_file test
Qualifies_AnyKind(f) ==
    /\ StartsWith(f.name, WS_PREFIX)
    /\ EndsWith(f.name, SH_SUFFIX)

\* the filter of list_workspaces
Qualifies(f) ==
    /\ IsFile(f)
    /\ StartsWith(f.name, WS_PREFIX)
    /\ EndsWith(f.name, SH_SUFFIX)

\* the WorkspaceEntry list_workspaces builds for a qualifying file
MakeEntry(f) ==
    LET no_ext == TrimEndMatches(f.name, SH_SUFFIX)
    IN  [name_short |-> StripPrefixOr(no_ext, WS_PREFIX),
         base_name |-> f.name,
         full_path |-> f.name,
         workspace_num |-> parse_workspace_num(f)]

\* the loop of list_workspaces over the items in the order read_dir gives
RECURSIVE CollectFrom(_, _)
CollectFrom(order, i) ==
    IF i > Len(order) THEN <<>>
    ELSE IF Qualifies(order[i])
         THEN <<MakeEntry(order[i])>> \o CollectFrom(order, i + 1)
         ELSE CollectFrom(order, i + 1)

Collect(order) == CollectFrom(order, 1)

\* insertion of an entry after the entries that are not greater (stable)
RECURSIVE InsertSorted(_, _)
InsertSorted(sorted, e) ==
    IF sorted = <<>> THEN <<e>>
    ELSE IF StrLess(e.base_name, Head(sorted).base_name)
         THEN <<e>> \o sorted
         ELSE <<Head(sorted)>> \o InsertSorted(Tail(sorted), e)

\* entries.sort_by(|a, b| a.base_name.cmp(&b.base_name))
RECURSIVE SortByBaseName(_)
SortByBaseName(es) ==
    IF es = <<>> THEN <<>>
    ELSE InsertSorted(SortByBaseName(SubSeq(es, 1, Len(es) - 1)), es[Len(es)])

\* variant: the entries in the order they were collected
ListEntries_Unsorted(order) == Collect(order)

\* the Ok value of list_workspaces
ListEntries(order) == SortByBaseName(Collect(order))

(***************************************************************************)
(* State of one process run                                                *)
(***************************************************************************)
VARIABLES
    pc,         \* position of the single thread of control
    homeSet,    \* whether the environment has a usable HOME
    dirExists,  \* whether ~/.config/hyprspace exists
    files,      \* the items of that directory
    listed,     \* main: the Ok value of list_workspaces
    app,        \* run_tui: the App (workspaces, selected, action)
    trail,      \* run_tui: the loop's events so far, with the cursor around each
    tui,        \* run_tui: "idle", "running", or how it returned: "ok", "err"
    ret,        \* main: the Ok value of run_tui, None before and on Err
    term,       \* the terminal: raw mode, alternate screen, cursor visible
    frame,      \* the list as ui last rendered it: rows and highlighted row
    users,      \* who is interacting with the terminal
    child,      \* the launched script's process
    launch,     \* launch_script: calls, entry, spawn and wait results, return
    gen,        \* create_new_script: calls, answers, content, how it returned
    calls,      \* how many times run_tui, launch_script, create_new_script began
    err,        \* the failure that ended the run, None if none
    exitCode    \* the process's exit status, None while it runs

vars == <<pc, homeSet, dirExists, files, listed, app, trail, tui, ret, term,
          frame, users, child, launch, gen, calls, err, exitCode>>

\* tui.rs: enum Action
Launch(idx) == <<"Launch", idx>>

CreateNew == <<"CreateNew">>

\* the terminal as the shell hands it over
NormalTerm == [raw |-> FALSE, alt |-> FALSE, cursor |-> TRUE]

\* App::new
AppNew(workspaces) == [workspaces |-> workspaces, selected |-> 0, action |-> None]

\* App::total_items
total_items(a) == Len(a.workspaces) + 1

\* the screen before any frame is drawn
NoFrame == [rows |-> 0, highlight |-> None]

\* variant: the highlight counts rows from one, as the row labels do
ui_HighlightOneBased(a) ==
    [rows |-> Len(a.workspaces) + 1,
     highlight |-> IF total_items(a) > 0 THEN Some(a.selected + 1) ELSE None]

\* ui: one row per workspace plus the create row, the row `selected` marked
ui(a) ==
    [rows |-> Len(a.workspaces) + 1,
     highlight |-> IF total_items(a) > 0 THEN Some(a.selected) ELSE None]

\* App::next without the modulo
next_NoWrap(a) ==
    LET total == total_items(a)
    IN  IF total = 0 THEN a
        ELSE [a EXCEPT !.selected = a.selected + 1]

\* App::next
next(a) ==
    LET total == total_items(a)
    IN  IF total = 0 THEN a
        ELSE [a EXCEPT !.selected = (a.selected + 1) % total]

\* App::previous without the wrap at the first row
previous_NoWrap(a) ==
    LET total == total_items(a)
    IN  IF total = 0 \/ a.selected = 0 THEN a
        ELSE [a EXCEPT !.selected = a.selected - 1]

\* App::previous
previous(a) ==
    LET total == total_items(a)
    IN  IF total = 0 THEN a
        ELSE IF a.selected = 0
             THEN [a EXCEPT !.selected = total - 1]
             ELSE [a EXCEPT !.selected = a.selected - 1]

\* the Enter arm with <= for <
confirm_OffByOne(a) ==
    LET ws_len == Len(a.workspaces)
    IN  IF a.selected <= ws_len
        THEN [a EXCEPT !.action = Some(Launch(a.selected))]
        ELSE [a EXCEPT !.action = Some(CreateNew)]

\* run_tui, the KeyCode::Enter arm
confirm(a) ==
    LET ws_len == Len(a.workspaces)
    IN  IF a.selected < ws_len
        THEN [a EXCEPT !.action = Some(Launch(a.selected))]
        ELSE [a EXCEPT !.action = Some(CreateNew)]

\* the quit arm falling through to a selection of the highlighted row
quit_Selects(a) ==
    [a EXCEPT !.action =
        IF a.selected < Len(a.workspaces) THEN Some(Launch(a.selected))
        ELSE Some(CreateNew)]

\* run_tui, the quit arm
quit(a) == [a EXCEPT !.action = None]

\* what event::read may deliver: keys, and "Resize" for the non-key events
QuitKeys == {"q", "Esc"}

DownKeys == {"Down", "j"}

UpKeys == {"Up", "k"}

\* variant: the catch-all arm breaks the loop too
EndingKeys_AnyOtherKey == QuitKeys \cup {"Enter", "x"}

\* the keys whose arms end with `break`
EndingKeys == QuitKeys \cup {"Enter"}

Events == QuitKeys \cup DownKeys \cup UpKeys \cup {"Enter", "x", "Resize"}

\* variant: the catch-all arm runs the Enter arm's assignment
handle_OtherConfirms(a, ev) ==
    IF ev \in QuitKeys THEN quit(a)
    ELSE IF ev \in DownKeys THEN next(a)
    ELSE IF ev \in UpKeys THEN previous(a)
    ELSE confirm(a)

\* run_tui, the match on the event read
handle(a, ev) ==
    IF ev \in QuitKeys THEN quit(a)
    ELSE IF ev \in DownKeys THEN next(a)
    ELSE IF ev \in UpKeys THEN previous(a)
    ELSE IF ev = "Enter" THEN confirm(a)
    ELSE a

\* no process spawned yet
NoChild == [state |-> "none", status |-> 0, script |-> None]

NoLaunch == [entry |-> None, spawned |-> FALSE, waited |-> "no",
             result |-> "none"]

NoGen == [result |-> "none", outcome |-> "none", num |-> 0,
          short_name |-> <<>>, content |-> <<>>, window_index |-> 1,
          field |-> 0, answers |-> <<>>, retries |-> 0]

Init ==
    /\ pc = "ensure_dir"
    /\ homeSet \in BOOLEAN
    /\ dirExists \in BOOLEAN
    /\ files \in SUBSET Universe
    /\ (~dirExists => files = {})
    /\ listed = <<>>
    /\ app = AppNew(<<>>)
    /\ trail = <<>>
    /\ tui = "idle"
    /\ ret = None
    /\ term = NormalTerm
    /\ frame = NoFrame
    /\ users = {}
    /\ child = NoChild
    /\ launch = NoLaunch
    /\ gen = NoGen
    /\ calls = [tui |-> 0, launch |-> 0, gen |-> 0]
    /\ err = None
    /\ exitCode = None

\* an Err travels up the `?`s to main, which reports it: exit status 1
Fail(what) ==
    /\ pc' = "exit"
    /\ err' = Some(what)
    /\ exitCode' = Some(1)

(***************************************************************************)
(* main.rs and workspace.rs: loading                                       *)
(***************************************************************************)
\* ensure_workspace_dir, with workspace_dir's expect on HOME
EnsureWorkspaceDir ==
    /\ pc = "ensure_dir"
    /\ \/ /\ ~homeSet
          /\ pc' = "exit"
          /\ err' = Some("panic: HOME environment variable not set")
          /\ exitCode' = Some(101)
          /\ UNCHANGED dirExists
       \/ /\ homeSet
          /\ dirExists
          /\ pc' = "list"
          /\ UNCHANGED <<dirExists, err, exitCode>>
       \/ /\ homeSet
          /\ ~dirExists
          /\ dirExists' = TRUE
          /\ pc' = "list"
          /\ UNCHANGED <<err, exitCode>>
       \/ /\ homeSet
          /\ ~dirExists
          /\ Fail("create_dir_all")
          /\ UNCHANGED dirExists
    /\ UNCHANGED <<calls, homeSet, frame, files, listed, app, trail, tui, ret, term, users,
                   child, launch, gen>>

\* list_workspaces, called from main
ListWorkspaces ==
    /\ pc = "list"
    /\ \/ /\ \E order \in Orders(files) :
                listed' = IF ~dirExists THEN <<>> ELSE ListEntries(order)
          /\ pc' = "tui_enable_raw"
          /\ UNCHANGED <<err, exitCode>>
       \/ /\ dirExists
          /\ Fail("read_dir")
          /\ UNCHANGED listed
       \/ /\ dirExists
          /\ files # {}
          /\ Fail("read_dir entry")
          /\ UNCHANGED listed
    /\ UNCHANGED <<calls, homeSet, frame, dirExists, files, app, trail, tui, ret, term,
                   users, child, launch, gen>>

(***************************************************************************)
(* tui.rs: run_tui                                                         *)
(***************************************************************************)
\* run_tui returns Err through a `?`: nothing after the failing call runs
TuiErr(what) ==
    /\ tui' = "err"
    /\ err' = Some(what)
    /\ users' = users \ {"ui"}
    /\ app' = AppNew(<<>>)
    /\ trail' = <<>>
    /\ pc' = "main_tui_result"

\* App::new(workspaces); enable_raw_mode()?
TuiEnableRaw ==
    /\ pc = "tui_enable_raw"
    /\ calls' = [calls EXCEPT !.tui = @ + 1]
    /\ \/ /\ app' = AppNew(listed)
          /\ term' = [term EXCEPT !.raw = TRUE]
          /\ tui' = "running"
          /\ users' = users \cup {"ui"}
          /\ pc' = "tui_enter_alt"
          /\ UNCHANGED <<trail, err>>
       \/ /\ TuiErr("enable_raw_mode")
          /\ UNCHANGED term
    /\ UNCHANGED <<homeSet, frame, dirExists, files, listed, ret, child, launch, gen,
                   exitCode>>

\* execute!(stdout, EnterAlternateScreen)?
TuiEnterAlt ==
    /\ pc = "tui_enter_alt"
    /\ \/ /\ term' = [term EXCEPT !.alt = TRUE]
          /\ pc' = "tui_new_terminal"
          /\ UNCHANGED <<app, trail, tui, err, users>>
       \/ /\ TuiErr("EnterAlternateScreen")
          /\ UNCHANGED term
    /\ UNCHANGED <<calls, homeSet, frame, dirExists, files, listed, ret, child, launch, gen,
                   exitCode>>

\* Terminal::new(backend)?
TuiNewTerminal ==
    /\ pc = "tui_new_terminal"
    /\ \/ /\ pc' = "tui_draw"
          /\ UNCHANGED <<app, trail, tui, err, users>>
       \/ TuiErr("Terminal::new")
    /\ UNCHANGED <<calls, homeSet, frame, dirExists, files, listed, ret, term, child, launch,
                   gen, exitCode>>

\* terminal.draw(|f| ui(f, &app))?: a drawn frame leaves the cursor hidden
TuiDraw ==
    /\ pc = "tui_draw"
    /\ \/ /\ term' = [term EXCEPT !.cursor = FALSE]
          /\ frame' = ui(app)
          /\ pc' = "tui_poll"
          /\ UNCHANGED <<app, trail, tui, err, users>>
       \/ /\ \E c \in {term.cursor, FALSE} : term' = [term EXCEPT !.cursor = c]
          /\ \E fr \in {frame, ui(app)} : frame' = fr
          /\ TuiErr("draw")
    /\ UNCHANGED <<calls, homeSet, dirExists, files, listed, ret, child, launch, gen,
                   exitCode>>

\* variant: a poll that times out leaves the loop
TuiPoll_BreaksOnTimeout ==
    /\ pc = "tui_poll"
    /\ \/ /\ pc' = "tui_read"
          /\ UNCHANGED <<app, trail, tui, err, users>>
       \/ /\ Len(trail) < MaxEvents
          /\ trail' = Append(trail, [ev |-> "Timeout", before |-> app.selected,
                                     after |-> app.selected])
          /\ pc' = "tui_disable_raw"
          /\ UNCHANGED <<app, tui, err, users>>
       \/ TuiErr("poll")
    /\ UNCHANGED <<calls, homeSet, frame, dirExists, files, listed, ret, term, child, launch,
                   gen, exitCode>>

\* event::poll(Duration::from_millis(250))?
TuiPoll ==
    /\ pc = "tui_poll"
    /\ \/ /\ pc' = "tui_read"
          /\ UNCHANGED <<app, trail, tui, err, users>>
       \/ /\ Len(trail) < MaxEvents
          /\ trail' = Append(trail, [ev |-> "Timeout", before |-> app.selected,
                                     after |-> app.selected])
          /\ pc' = "tui_draw"
          /\ UNCHANGED <<app, tui, err, users>>
       \/ TuiErr("poll")
    /\ UNCHANGED <<calls, homeSet, frame, dirExists, files, listed, ret, term, child, launch,
                   gen, exitCode>>

\* event::read()? and the match on the key: a quit key or Enter breaks the loop
TuiRead ==
    /\ pc = "tui_read"
    /\ \/ /\ \E ev \in Events :
                /\ ev \notin EndingKeys => Len(trail) < MaxEvents
                /\ app' = handle(app, ev)
                /\ trail' = Append(trail, [ev |-> ev, before |-> app.selected,
                                           after |-> handle(app, ev).selected])
                /\ pc' = IF ev \in EndingKeys THEN "tui_disable_raw" ELSE "tui_draw"
          /\ UNCHANGED <<tui, err, users>>
       \/ TuiErr("read")
    /\ UNCHANGED <<calls, homeSet, frame, dirExists, files, listed, ret, term, child, launch,
                   gen, exitCode>>

\* the restoration without disable_raw_mode
TuiDisableRaw_Skipped ==
    /\ pc = "tui_disable_raw"
    /\ pc' = "tui_leave_alt"
    /\ UNCHANGED <<app, trail, tui, err, users, term>>
    /\ UNCHANGED <<calls, homeSet, frame, dirExists, files, listed, ret, child,
                   launch, gen, exitCode>>

\* disable_raw_mode()?
TuiDisableRaw ==
    /\ pc = "tui_disable_raw"
    /\ \/ /\ term' = [term EXCEPT !.raw = FALSE]
          /\ pc' = "tui_leave_alt"
          /\ UNCHANGED <<app, trail, tui, err, users>>
       \/ /\ TuiErr("disable_raw_mode")
          /\ UNCHANGED term
    /\ UNCHANGED <<calls, homeSet, frame, dirExists, files, listed, ret, child, launch, gen,
                   exitCode>>

\* execute!(terminal.backend_mut(), LeaveAlternateScreen)?
TuiLeaveAlt ==
    /\ pc = "tui_leave_alt"
    /\ \/ /\ term' = [term EXCEPT !.alt = FALSE]
          /\ pc' = "tui_show_cursor"
          /\ UNCHANGED <<app, trail, tui, err, users>>
       \/ /\ TuiErr("LeaveAlternateScreen")
          /\ UNCHANGED term
    /\ UNCHANGED <<calls, homeSet, frame, dirExists, files, listed, ret, child, launch, gen,
                   exitCode>>

\* the return without show_cursor
TuiShowCursor_Skipped ==
    /\ pc = "tui_show_cursor"
    /\ tui' = "ok"
    /\ ret' = Some(<<app.workspaces, app.action>>)
    /\ users' = users \ {"ui"}
    /\ app' = AppNew(<<>>)
    /\ trail' = <<>>
    /\ pc' = "main_tui_result"
    /\ UNCHANGED <<err, term>>
    /\ UNCHANGED <<calls, homeSet, frame, dirExists, files, listed, child, launch,
                   gen, exitCode>>

\* terminal.show_cursor()?; Ok((app.workspaces, app.action))
TuiShowCursor ==
    /\ pc = "tui_show_cursor"
    /\ \/ /\ term' = [term EXCEPT !.cursor = TRUE]
          /\ tui' = "ok"
          /\ ret' = Some(<<app.workspaces, app.action>>)
          /\ users' = users \ {"ui"}
          /\ app' = AppNew(<<>>)
          /\ trail' = <<>>
          /\ pc' = "main_tui_result"
          /\ UNCHANGED err
       \/ /\ TuiErr("show_cursor")
          /\ UNCHANGED <<term, ret>>
    /\ UNCHANGED <<calls, homeSet, frame, dirExists, files, listed, child, launch, gen,
                   exitCode>>

(***************************************************************************)
(* main.rs: the `?` on run_tui and the match on the action                 *)
(***************************************************************************)
\* Vec::get
Get(seq, idx) == IF idx < Len(seq) THEN Some(seq[idx + 1]) ELSE None

\* the match with the None arm running the generator
Dispatch_QuitCreates(workspaces, action) ==
    IF action = None THEN "create"
    ELSE IF action[1] = CreateNew THEN "create"
    ELSE IF Get(workspaces, action[1][2]) # None THEN "launch"
    ELSE "none"

\* the match of main on the action run_tui returned
Dispatch(workspaces, action) ==
    IF action = None THEN "none"
    ELSE IF action[1] = CreateNew THEN "create"
    ELSE IF Get(workspaces, action[1][2]) # None THEN "launch"
    ELSE "none"

MainTuiResult ==
    /\ pc = "main_tui_result"
    /\ \/ /\ tui = "err"
          /\ pc' = "exit"
          /\ exitCode' = Some(1)
          /\ UNCHANGED <<launch, calls, users>>
       \/ /\ tui = "ok"
          /\ LET workspaces == ret[1][1]
                 action == ret[1][2]
             IN  \/ /\ Dispatch(workspaces, action) = "launch"
                    /\ launch' = [launch EXCEPT
                                     !.entry = Get(workspaces, action[1][2])]
                    /\ calls' = [calls EXCEPT !.launch = @ + 1]
                    /\ pc' = "launch_spawn"
                    /\ UNCHANGED <<users, exitCode>>
                 \/ /\ Dispatch(workspaces, action) = "create"
                    /\ calls' = [calls EXCEPT !.gen = @ + 1]
                    /\ users' = users \cup {"generator"}
                    /\ pc' = "gen_number"
                    /\ UNCHANGED <<launch, exitCode>>
                 \/ /\ Dispatch(workspaces, action) = "none"
                    /\ pc' = "exit"
                    /\ exitCode' = Some(0)
                    /\ UNCHANGED <<launch, calls, users>>
    /\ UNCHANGED <<homeSet, frame, dirExists, files, listed, app, trail, tui, ret,
                   term, child, gen, err>>

(***************************************************************************)
(* launcher.rs: launch_script                                              *)
(***************************************************************************)
\* the statuses a script may exit with
Statuses == {0, 1}

\* Command::new(full_path)...spawn()?
LaunchSpawn ==
    /\ pc = "launch_spawn"
    /\ \/ /\ child' = [state |-> "running", status |-> 0,
                       script |-> Some(launch.entry[1].full_path)]
          /\ launch' = [launch EXCEPT !.spawned = TRUE]
          /\ users' = users \cup {"child"}
          /\ pc' = "launch_wait"
          /\ UNCHANGED <<err, exitCode>>
       \/ /\ launch' = [launch EXCEPT !.result = "err"]
          /\ Fail("spawn")
          /\ UNCHANGED <<child, users>>
    /\ UNCHANGED <<calls, homeSet, frame, dirExists, files, listed, app, trail, tui, ret,
                   term, gen>>

\* the script runs on the inherited terminal and ends with some status
ChildExit ==
    /\ child.state = "running"
    /\ \E st \in Statuses : child' = [child EXCEPT !.state = "exited", !.status = st]
    /\ users' = users \ {"child"}
    /\ UNCHANGED <<pc, calls, homeSet, frame, dirExists, files, listed, app, trail, tui,
                   ret, term, launch, gen, err, exitCode>>

\* launch_script propagating a failed wait and a nonzero exit status
LaunchWait_ChecksStatus ==
    /\ pc = "launch_wait"
    /\ \/ /\ child.state = "exited"
          /\ child.status = 0
          /\ launch' = [launch EXCEPT !.waited = "ok", !.result = "ok"]
          /\ pc' = "exit"
          /\ exitCode' = Some(0)
          /\ UNCHANGED err
       \/ /\ child.state = "exited"
          /\ child.status # 0
          /\ launch' = [launch EXCEPT !.waited = "ok", !.result = "err"]
          /\ Fail("exit status")
       \/ /\ launch' = [launch EXCEPT !.waited = "err", !.result = "err"]
          /\ Fail("wait")
    /\ UNCHANGED <<calls, homeSet, frame, dirExists, files, listed, app, trail, tui,
                   ret, term, users, child, gen>>

\* let _ = child.wait(); Ok(()) and, in main, Ok(())
LaunchWait ==
    /\ pc = "launch_wait"
    /\ \/ /\ child.state = "exited"
          /\ launch' = [launch EXCEPT !.waited = "ok", !.result = "ok"]
       \/ launch' = [launch EXCEPT !.waited = "err", !.result = "ok"]
    /\ pc' = "exit"
    /\ exitCode' = Some(0)
    /\ UNCHANGED <<calls, homeSet, frame, dirExists, files, listed, app, trail, tui, ret,
                   term, users, child, gen, err>>

(***************************************************************************)
(* workspace.rs: create_new_script                                         *)
(***************************************************************************)
\* the rule_exec helper every generated script defines
RULE_EXEC_HELPER ==
    <<"r", "u", "l", "e", "_", "e", "x", "e", "c", "(", ")", " ", "{",
      "\n", " ", " ", "l", "o", "c", "a", "l", " ", "r", "u", "l", "e",
      "s", "=", "\"", "$", "1", "\"", "\n", " ", " ", "s", "h", "i", "f",
      "t", "\n", " ", " ", "h", "y", "p", "r", "c", "t", "l", " ", "d",
      "i", "s", "p", "a", "t", "c", "h", " ", "e", "x", "e", "c", " ",
      "\"", "[", "$", "r", "u", "l", "e", "s", "]", " ", "$", "*", "\"",
      "\n", "}", "\n", "\n">>

\* char::to_lowercase on the letters the answers use
LowerChar(c) ==
    CASE c = "Y" -> "y" [] c = "E" -> "e" [] c = "S" -> "s" [] c = "N" -> "n"
      [] OTHER -> c

\* str::to_lowercase
ToLowercase(s) == [i \in 1..Len(s) |-> LowerChar(s[i])]

\* the lines a user may type, as prompt returns them (already trimmed)
NumberAnswers == {<<"3">>, <<"+", "1", "2">>, <<"0">>, <<"-", "1">>, <<"x">>, <<>>}

NameAnswers == {<<"a">>, <<"m">>, <<>>}

YesNoAnswers == {<<>>, <<"y">>, <<"Y", "e", "s">>, <<"n">>}

SizeAnswers == {<<"1", "%">>, <<>>}

CommandAnswers == {<<"l", "s">>, DISPATCH \o <<" ", "9">>, <<>>}

\* the five prompt_non_empty calls of one window block, in order
Fields == <<"width", "height", "pos_x", "pos_y", "command">>

FieldAnswers(i) == IF Fields[i] = "command" THEN CommandAnswers ELSE SizeAnswers

\* prompt_yes_no, from the line prompt returned
YesNo(line, default_no) ==
    LET answer == ToLowercase(line)
    IN  IF answer = <<>> THEN ~default_no
        ELSE answer \in {<<"y">>, <<"y", "e", "s">>}

\* step 1: the answer the workspace number loop accepts
AcceptedNumber(value) ==
    IF ParseU32(Trim(value)) # None /\ ParseU32(Trim(value))[1] > 0
    THEN ParseU32(Trim(value))
    ELSE None

\* format!("workspace-{}.sh", short_name)
ScriptName(short_name) == WS_PREFIX \o short_name \o SH_SUFFIX

\* variant: the header pushed without its line breaks
ContentHead_NoLineBreak(num) ==
    SHEBANG \o <<" ">>
    \o DISPATCH \o <<" ">> \o FmtNum(num) \o NL \o NL
    \o RULE_EXEC_HELPER

\* the content before the window loop: header, dispatch line, helper
ContentHead(num) ==
    SHEBANG \o NL \o NL
    \o DISPATCH \o <<" ">> \o FmtNum(num) \o NL \o NL
    \o RULE_EXEC_HELPER

\* the rule_exec block appended for one window
WindowBlock(num, w, h, x, y, cmd) ==
    <<"r", "u", "l", "e", "_", "e", "x", "e", "c", " ", "\"", "w", "o",
      "r", "k", "s", "p", "a", "c", "e", " ">> \o FmtNum(num)
    \o <<" ", "s", "i", "l", "e", "n", "t", ";", " ", "f", "l", "o", "a", "t",
         ";", " ", "s", "i", "z", "e", " ">> \o w \o <<" ">> \o h
    \o <<";", " ", "m", "o", "v", "e", " ">> \o x \o <<" ">> \o y
    \o <<"\"", " ", "\\", "\n", " ", " ">> \o cmd \o NL \o NL

\* create_new_script returns Err through a `?`
GenErr(what) ==
    /\ gen' = [gen EXCEPT !.result = "err"]
    /\ users' = users \ {"generator"}
    /\ Fail(what)

\* a cancellation reported as a failure
GenOk_CancelFails(outcome) ==
    /\ gen' = [gen EXCEPT !.result = IF outcome = "saved" THEN "ok" ELSE "err",
                          !.outcome = outcome]
    /\ users' = users \ {"generator"}
    /\ pc' = "exit"
    /\ exitCode' = IF outcome = "saved" THEN Some(0) ELSE Some(1)
    /\ UNCHANGED err

\* create_new_script returns Ok(()), and main returns Ok(())
GenOk(outcome) ==
    /\ gen' = [gen EXCEPT !.result = "ok", !.outcome = outcome]
    /\ users' = users \ {"generator"}
    /\ pc' = "exit"
    /\ exitCode' = Some(0)
    /\ UNCHANGED err

\* step 1: the loop that asks for the workspace number
GenNumber ==
    /\ pc = "gen_number"
    /\ \/ /\ \E value \in NumberAnswers :
                IF AcceptedNumber(value) # None
                THEN /\ gen' = [gen EXCEPT !.num = AcceptedNumber(value)[1]]
                     /\ pc' = "gen_name"
                ELSE /\ gen.retries < MaxRetries
                     /\ gen' = [gen EXCEPT !.retries = @ + 1]
                     /\ pc' = "gen_number"
          /\ UNCHANGED <<users, err, exitCode>>
       \/ GenErr("prompt")
    /\ UNCHANGED <<calls, homeSet, frame, dirExists, files, listed, app, trail, tui, ret,
                   term, child, launch>>

\* variant: the existence test looks for the short name, not the file name
TargetExists_ShortName(fs, short_name) == PathExists(fs, short_name)

\* path.exists() for path = dir.join(format!("workspace-{}.sh", short_name))
TargetExists(fs, short_name) == PathExists(fs, ScriptName(short_name))

\* step 2: the short name, and the refusal to overwrite
GenName ==
    /\ pc = "gen_name"
    /\ \/ \E value \in NameAnswers :
            IF value = <<>>
            THEN /\ gen.retries < MaxRetries
                 /\ gen' = [gen EXCEPT !.retries = @ + 1]
                 /\ pc' = "gen_name"
                 /\ UNCHANGED <<users, err, exitCode>>
            ELSE IF TargetExists(files, value)
            THEN GenOk("exists")
            ELSE /\ gen' = [gen EXCEPT !.short_name = value,
                                       !.content = ContentHead(gen.num)]
                 /\ pc' = "gen_add_window"
                 /\ UNCHANGED <<users, err, exitCode>>
       \/ GenErr("prompt")
    /\ UNCHANGED <<calls, homeSet, frame, dirExists, files, listed, app, trail, tui, ret,
                   term, child, launch>>

\* step 3: prompt_yes_no("Add a window rule_exec?", true)
GenAddWindow ==
    /\ pc = "gen_add_window"
    /\ \/ /\ \E line \in YesNoAnswers :
                IF YesNo(line, TRUE)
                THEN /\ gen.window_index <= MaxWindows
                     /\ gen' = [gen EXCEPT !.field = 1, !.answers = <<>>]
                     /\ pc' = "gen_field"
                ELSE /\ pc' = "gen_save"
                     /\ UNCHANGED gen
          /\ UNCHANGED <<users, err, exitCode>>
       \/ GenErr("prompt")
    /\ UNCHANGED <<calls, homeSet, frame, dirExists, files, listed, app, trail, tui, ret,
                   term, child, launch>>

\* one prompt_non_empty of the window block; the last one appends the block
GenField ==
    /\ pc = "gen_field"
    /\ \/ /\ \E value \in FieldAnswers(gen.field) :
                IF value = <<>>
                THEN /\ gen.retries < MaxRetries
                     /\ gen' = [gen EXCEPT !.retries = @ + 1]
                     /\ pc' = "gen_field"
                ELSE IF gen.field < Len(Fields)
                THEN /\ gen' = [gen EXCEPT !.field = @ + 1,
                                           !.answers = Append(@, value)]
                     /\ pc' = "gen_field"
                ELSE /\ gen' = [gen EXCEPT
                          !.content = @ \o WindowBlock(gen.num, gen.answers[1],
                                          gen.answers[2], gen.answers[3],
                                          gen.answers[4], value),
                          !.window_index = @ + 1,
                          !.field = 0,
                          !.answers = <<>>]
                     /\ pc' = "gen_add_window"
          /\ UNCHANGED <<users, err, exitCode>>
       \/ GenErr("prompt")
    /\ UNCHANGED <<calls, homeSet, frame, dirExists, files, listed, app, trail, tui, ret,
                   term, child, launch>>

\* prompt_yes_no("Save this script?", false)
GenSave ==
    /\ pc = "gen_save"
    /\ \/ \E line \in YesNoAnswers :
            IF YesNo(line, FALSE)
            THEN /\ pc' = "gen_write"
                 /\ UNCHANGED <<gen, users, err, exitCode>>
            ELSE GenOk("declined")
       \/ GenErr("prompt")
    /\ UNCHANGED <<calls, homeSet, frame, dirExists, files, listed, app, trail, tui, ret,
                   term, child, launch>>

\* the file fs::write creates
NewFile(name, content) ==
    [name |-> name, kind |-> "file", readable |-> TRUE, content |-> content,
     mode |-> "644"]

\* the directory after fs::write: the file replaces any file of that name
Written(fs, file) == {f \in fs : f.name # file.name} \cup {file}

\* fs::write(&path, content)?: a failed write may have created the file
GenWrite ==
    /\ pc = "gen_write"
    /\ \/ /\ files' = Written(files, NewFile(ScriptName(gen.short_name), gen.content))
          /\ pc' = "gen_chmod"
          /\ UNCHANGED <<gen, users, err, exitCode>>
       \/ /\ \E partial \in {{}, {"truncated"}} :
                files' = IF partial = {} THEN files
                         ELSE Written(files, NewFile(ScriptName(gen.short_name), <<>>))
          /\ GenErr("write")
    /\ UNCHANGED <<calls, homeSet, frame, dirExists, listed, app, trail, tui, ret, term,
                   child, launch>>

\* fs::metadata(&path)?, set_mode(0o755), fs::set_permissions(&path, perms)?
GenChmod ==
    /\ pc = "gen_chmod"
    /\ \/ /\ files' = { IF f.name = ScriptName(gen.short_name)
                        THEN [f EXCEPT !.mode = "755"] ELSE f : f \in files }
          /\ GenOk("saved")
       \/ /\ GenErr("metadata")
          /\ UNCHANGED files
       \/ /\ GenErr("set_permissions")
          /\ UNCHANGED files
    /\ UNCHANGED <<calls, homeSet, frame, dirExists, listed, app, trail, tui, ret, term,
                   child, launch>>

(***************************************************************************)
(* The specification                                                       *)
(***************************************************************************)
Next ==
    \/ EnsureWorkspaceDir
    \/ ListWorkspaces
    \/ TuiEnableRaw
    \/ TuiEnterAlt
    \/ TuiNewTerminal
    \/ TuiDraw
    \/ TuiPoll
    \/ TuiRead
    \/ TuiDisableRaw
    \/ TuiLeaveAlt
    \/ TuiShowCursor
    \/ MainTuiResult
    \/ LaunchSpawn
    \/ ChildExit
    \/ LaunchWait
    \/ GenNumber
    \/ GenName
    \/ GenAddWindow
    \/ GenField
    \/ GenSave
    \/ GenWrite
    \/ GenChmod

Spec == Init /\ [][Next]_vars

\* the steps of the program once the loop of run_tui has been left: the
\* restoration, main's match, the launcher with its child, the generator
AfterSession ==
    \/ TuiDisableRaw
    \/ TuiLeaveAlt
    \/ TuiShowCursor
    \/ MainTuiResult
    \/ LaunchSpawn
    \/ ChildExit
    \/ LaunchWait
    \/ GenNumber
    \/ GenName
    \/ GenAddWindow
    \/ GenField
    \/ GenSave
    \/ GenWrite
    \/ GenChmod

\* Termination is examined on the runs that start with a directory holding
\* some of the two scripts FileA and FileB.
InitFair ==
    /\ Init
    /\ files \subseteq {FileA, FileB}

\* The program is one thread that is never suspended for ever: once the loop
\* is left it takes its next step whenever it has one.  The launched script
\* is taken to exit and the user to answer the generator's prompts, with at
\* most MaxRetries rejected answers.  Nothing is assumed about the events
\* delivered while the loop runs.
FairSpec == InitFair /\ [][Next]_vars /\ WF_vars(AfterSession)

(***************************************************************************)
(* The listing on its own: main up to the return of list_workspaces, over  *)
(* every directory of at most MaxDirItems items of ListUniverse            *)
(***************************************************************************)
InitList ==
    /\ pc = "ensure_dir"
    /\ homeSet \in BOOLEAN
    /\ dirExists \in BOOLEAN
    /\ files \in {fs \in SUBSET ListUniverse : Cardinality(fs) <= MaxDirItems}
    /\ (~dirExists => files = {})
    /\ listed = <<>>
    /\ app = AppNew(<<>>)
    /\ trail = <<>>
    /\ tui = "idle"
    /\ ret = None
    /\ term = NormalTerm
    /\ frame = NoFrame
    /\ users = {}
    /\ child = NoChild
    /\ launch = NoLaunch
    /\ gen = NoGen
    /\ calls = [tui |-> 0, launch |-> 0, gen |-> 0]
    /\ err = None
    /\ exitCode = None

NextList ==
    \/ EnsureWorkspaceDir
    \/ ListWorkspaces

SpecList == InitList /\ [][NextList]_vars

(***************************************************************************)
(* Properties                                                              *)
(***************************************************************************)
\* run_tui has returned to main
TuiReturned == tui \in {"ok", "err"}

\* the loop of run_tui has been left and the restoration is under way
InRestoration == pc \in {"tui_disable_raw", "tui_leave_alt", "tui_show_cursor"}

\* the event that was handled last in the running session
LastEvent == trail[Len(trail)]

\* C1: on every exit path of run_tui, the error paths included, the terminal
\* is back in its original mode (raw mode off, primary screen, cursor
\* visible) when control returns to the caller.
C1_RestoredOnEveryExit == TuiReturned => term = NormalTerm

\* C2: whenever run_tui returns successfully, raw mode is disabled, the
\* alternate screen is left and the cursor is shown.
C2_RestoredOnSuccess ==
    tui = "ok" => ~term.raw /\ ~term.alt /\ term.cursor

\* a session that drew frames in raw mode on the alternate screen has
\* returned successfully
C2_Witness ==
    /\ tui = "ok"
    /\ pc = "main_tui_result"
    /\ ret # None
    /\ Len(ret[1][1]) = 2

\* C3: the launched script and the script generator use the terminal only
\* after the selection UI has returned successfully and the terminal is in
\* normal mode (raw mode off, primary screen, cursor visible); at most one of
\* the three uses the terminal at any instant.
C3_ExclusiveTerminal ==
    /\ Cardinality(users) <= 1
    /\ (users \cap {"child", "generator"} # {}
          => tui = "ok" /\ term = NormalTerm)
    /\ (pc \in {"launch_spawn", "launch_wait", "gen_number", "gen_name",
                "gen_add_window", "gen_field", "gen_save", "gen_write",
                "gen_chmod"}
          => tui = "ok" /\ "ui" \notin users /\ term = NormalTerm)

\* the launched script is running on the terminal
C3_Witness ==
    /\ child.state = "running"
    /\ users = {"child"}
    /\ pc = "launch_wait"

\* C4: with N entries the cursor satisfies 0 <= cursor < N + 1 in every state
\* of the session.
C4_CursorInRange ==
    /\ app.selected >= 0
    /\ app.selected < Len(app.workspaces) + 1

\* the cursor has wrapped from the first row to the synthetic last row of a
\* list of two entries
C4_Witness ==
    /\ tui = "running"
    /\ Len(app.workspaces) = 2
    /\ trail # <<>>
    /\ LastEvent.ev \in UpKeys
    /\ LastEvent.before = 0
    /\ app.selected = 2

\* C5: when Enter is pressed with N entries loaded, the action is
\* Launch(cursor) if cursor < N and CreateNew otherwise, also for N = 0.
C5_ConfirmResolves ==
    (InRestoration /\ LastEvent.ev = "Enter")
        => app.action = IF LastEvent.before < Len(listed)
                        THEN Some(Launch(LastEvent.before))
                        ELSE Some(CreateNew)

\* Enter was pressed at the initial cursor of an empty list
C5_Witness ==
    /\ InRestoration
    /\ LastEvent.ev = "Enter"
    /\ Len(listed) = 0
    /\ LastEvent.before = 0
    /\ app.action = Some(CreateNew)

\* the number of entries of the running session
N == Len(app.workspaces)

\* the events i..j of the session are all of the given kind
AllOf(keys, i, j) == \A m \in i..j : trail[m].ev \in keys

\* C6: navigation wraps around: move-down sets the cursor to
\* (cursor + 1) mod (N + 1), move-up sets it to N from 0 and to cursor - 1
\* otherwise; N + 1 move-downs in a row return to the cursor they started
\* from, and a move-up right after a move-down, or the reverse, restores the
\* cursor.
C6_NavigationWraps ==
    /\ \A i \in 1..Len(trail) :
          /\ trail[i].ev \in DownKeys
                => trail[i].after = (trail[i].before + 1) % (N + 1)
          /\ trail[i].ev \in UpKeys
                => trail[i].after = IF trail[i].before = 0 THEN N
                                    ELSE trail[i].before - 1
    /\ \A i \in 1..Len(trail) :
          (i + N <= Len(trail) /\ AllOf(DownKeys, i, i + N))
                => trail[i + N].after = trail[i].before
    /\ \A i \in 1..(Len(trail) - 1) :
          /\ (trail[i].ev \in DownKeys /\ trail[i + 1].ev \in UpKeys)
                => trail[i + 1].after = trail[i].before
          /\ (trail[i].ev \in UpKeys /\ trail[i + 1].ev \in DownKeys)
                => trail[i + 1].after = trail[i].before

\* three move-downs in a row over two entries have brought the cursor back
\* to the first row
C6_Witness ==
    /\ tui = "running"
    /\ N = 2
    /\ Len(trail) = 3
    /\ AllOf(DownKeys, 1, 3)
    /\ trail[1].before = 0
    /\ trail[2].before = 1
    /\ trail[3].before = 2
    /\ app.selected = 0

\* C7: a quit key, after any navigation and at any cursor, ends the session
\* with no action, and run_tui returns the entry sequence it was given,
\* unchanged.
C7_QuitKeepsEntries ==
    [][ /\ (/\ pc = "tui_read"
            /\ Len(trail') = Len(trail) + 1
            /\ trail'[Len(trail')].ev \in QuitKeys)
            => /\ pc' = "tui_disable_raw"
               /\ app'.action = None
               /\ app'.workspaces = listed
               /\ listed' = listed
        /\ (InRestoration /\ LastEvent.ev \in QuitKeys)
            => /\ app'.action = None
               /\ (tui' = "ok" => ret' = Some(<<listed, None>>)) ]_vars

\* a quit key was pressed after navigating down to the second of two entries
C7_Witness ==
    /\ InRestoration
    /\ Len(trail) = 2
    /\ trail[1].ev \in DownKeys
    /\ LastEvent.ev \in QuitKeys
    /\ LastEvent.before = 1
    /\ Len(listed) = 2
    /\ app.action = None

\* the entries are in ascending order of base_name
SortedByBaseName(es) ==
    \A i, j \in 1..Len(es) : i < j => StrLess(es[i].base_name, es[j].base_name)

\* the action run_tui returned is a Launch
ReturnedLaunch == tui = "ok" /\ ret[1][2] # None /\ ret[1][2][1][1] = "Launch"

\* the action run_tui returned is CreateNew
ReturnedCreateNew == tui = "ok" /\ ret[1][2] = Some(CreateNew)

\* main is past the match on the action
PastDispatch == pc \notin {"ensure_dir", "list", "tui_enable_raw", "tui_enter_alt",
                           "tui_new_terminal", "tui_draw", "tui_poll", "tui_read",
                           "tui_disable_raw", "tui_leave_alt", "tui_show_cursor",
                           "main_tui_result"}

\* C8: after the selection UI ends at most one of launcher and generator is
\* invoked, once, and the UI is never entered again; the launcher is invoked
\* iff the action is Launch(i), on entry i of the sorted entries; the
\* generator iff the action is CreateNew; neither on quit or when run_tui
\* fails.
C8_DispatchOnce ==
    /\ calls.tui <= 1
    /\ calls.launch + calls.gen <= 1
    /\ (calls.launch + calls.gen = 1 => ~(tui \in {"idle", "running"}))
    /\ calls.launch = 1
          => /\ ReturnedLaunch
             /\ SortedByBaseName(listed)
             /\ ret[1][2][1][2] < Len(listed)
             /\ launch.entry = Some(listed[ret[1][2][1][2] + 1])
    /\ calls.gen = 1 => ReturnedCreateNew
    /\ PastDispatch
          => /\ ReturnedLaunch => calls.launch = 1
             /\ ReturnedCreateNew => calls.gen = 1
             /\ (tui = "ok" /\ ret[1][2] = None) => calls.launch + calls.gen = 0
             /\ tui # "ok" => calls.launch + calls.gen = 0

\* the launcher was invoked on the second of two sorted entries
C8_Witness ==
    /\ calls = [tui |-> 1, launch |-> 1, gen |-> 0]
    /\ ret[1][2] = Some(Launch(1))
    /\ Len(listed) = 2
    /\ launch.entry = Some(listed[2])
    /\ pc = "exit"

\* C9: launch_script fails iff the script cannot be spawned: once the child is
\* spawned it returns success whatever the exit status or the result of the
\* wait, and only after the wait.
C9_LaunchFailsOnlyOnSpawn ==
    /\ launch.result = "err" => ~launch.spawned
    /\ launch.result = "ok"
          => /\ launch.spawned
             /\ launch.waited \in {"ok", "err"}
             /\ (launch.waited = "ok" => child.state = "exited")
    /\ (calls.launch = 1 /\ pc = "exit")
          => /\ launch.result = (IF launch.spawned THEN "ok" ELSE "err")
             /\ (launch.spawned => exitCode = Some(0))

\* launch_script returned Ok after a child that exited with a nonzero status
C9_Witness ==
    /\ launch.result = "ok"
    /\ launch.waited = "ok"
    /\ child.state = "exited"
    /\ child.status = 1
    /\ pc = "exit"

\* the failures of I/O operations that end the run
IoFailures ==
    {"create_dir_all", "read_dir", "read_dir entry", "enable_raw_mode",
     "EnterAlternateScreen", "Terminal::new", "draw", "poll", "read",
     "disable_raw_mode", "LeaveAlternateScreen", "show_cursor", "spawn",
     "prompt", "write", "metadata", "set_permissions"}

\* the run ended with a failed I/O operation
IoFailed == err # None /\ err[1] \in IoFailures

\* the run ended in one of the normal outcomes: quit, a launched script that
\* exited, a script saved, declined, or refused because the file exists
NormalOutcome ==
    /\ pc = "exit"
    /\ \/ tui = "ok" /\ ret[1][2] = None
       \/ launch.result = "ok"
       \/ gen.result = "ok" /\ gen.outcome \in {"saved", "declined", "exists"}

\* C10 as stated: status 0 on every normal outcome, and a nonzero status
\* only when an I/O operation failed.
C10_NonzeroOnlyOnIoFailure ==
    /\ NormalOutcome => exitCode = Some(0)
    /\ (exitCode # None /\ exitCode[1] # 0) => IoFailed

\* C10, amended: status 0 on every normal outcome, and a nonzero status only
\* when an I/O operation failed or HOME is not set (workspace_dir panics).
C10_NonzeroOnlyOnIoFailureOrNoHome ==
    /\ NormalOutcome => exitCode = Some(0)
    /\ (exitCode # None /\ exitCode[1] # 0) => (IoFailed \/ ~homeSet)
    /\ (exitCode # None /\ exitCode[1] # 0 /\ ~homeSet) => exitCode = Some(101)

\* the user declined to save the generated script and the process ended
C10_Witness ==
    /\ pc = "exit"
    /\ gen.outcome = "declined"
    /\ exitCode = Some(0)
    /\ homeSet

(***************************************************************************)
(* Properties of the listing                                               *)
(***************************************************************************)
\* list_workspaces returned Ok and main holds its value
ListReturned == pc = "tui_enable_raw"

\* the positions of the listing that carry the file name `name`
ListedAs(name) == {i \in 1..Len(listed) : listed[i].base_name = name}

\* a regular file named workspace-<anything>.sh, in the exact case
NamedAsScript(f) ==
    /\ f.kind = "file"
    /\ Len(f.name) >= Len(WS_PREFIX) + Len(SH_SUFFIX)
    /\ \A i \in 1..Len(WS_PREFIX) : f.name[i] = WS_PREFIX[i]
    /\ \A i \in 1..Len(SH_SUFFIX) :
          f.name[Len(f.name) - Len(SH_SUFFIX) + i] = SH_SUFFIX[i]

\* C11: the listing holds exactly one entry for each regular file whose name
\* starts with workspace- and ends with .sh and no entry for anything else
\* (workspace-x.shx, Workspace-x.sh and a directory workspace-c.sh are left
\* out); a script that cannot be read or that carries no usable workspace
\* number is still listed, with workspace_num None.
C11_ListsExactlyScripts ==
    ListReturned =>
        /\ \A f \in files : Cardinality(ListedAs(f.name)) = (IF NamedAsScript(f) THEN 1 ELSE 0)
        /\ \A i \in 1..Len(listed) : \E f \in files : f.name = listed[i].base_name
        /\ ListedAs(FileX.name) = {}
        /\ ListedAs(FileUpper.name) = {}
        /\ ListedAs(DirC.name) = {}
        /\ \A f \in files \cap {FileU, FileD} :
              \E i \in ListedAs(f.name) : listed[i].workspace_num = None

\* a directory with the three excluded items and an unreadable script was
\* listed: the one entry is the unreadable script
C11_Witness ==
    /\ ListReturned
    /\ files = {FileX, FileUpper, DirC, FileU}
    /\ Len(listed) = 1
    /\ listed[1].base_name = FileU.name
    /\ listed[1].workspace_num = None

\* C12: the listing is in ascending order of base_name whatever order
\* read_dir yielded the items in, and every enumeration order of the same
\* directory gives the same sequence.
C12_SortedWhateverOrder ==
    ListReturned =>
        /\ SortedByBaseName(listed)
        /\ \A o \in Orders(files) : ListEntries(o) = listed

\* a directory with four scripts, which read_dir may yield in 24 orders
C12_Witness ==
    /\ ListReturned
    /\ Len(listed) = 4
    /\ listed[1].base_name = FileA.name
    /\ listed[4].base_name = FileU.name

\* the trimmed line is non-blank, no comment, starts with the directive and
\* its last whitespace-delimited token is an unsigned integer
Counts(line) ==
    LET t == Trim(line)
        parts == SplitWhitespace(t)
    IN  /\ t # <<>>
        /\ t[1] # "#"
        /\ StartsWith(t, DISPATCH)
        /\ ParseU32(parts[Len(parts)]) # None

\* the number C13 describes for a script text
FirstCounting(content) ==
    LET ls == Lines(content)
        counting == {i \in 1..Len(ls) : Counts(ls[i])}
        first == Kth(counting, 1)
        parts == SplitWhitespace(ls[first])
    IN  IF counting = {} THEN None ELSE ParseU32(parts[Len(parts)])

\* C13: the workspace number of a readable script is the last token of its
\* first line that is non-blank, not a comment, starts with
\* `hyprctl dispatch workspace` and whose last token parses; a directive
\* whose last token does not parse does not end the scan, a commented-out
\* directive contributes nothing, and the number is None when no line
\* qualifies.
C13_FirstParsingDirective ==
    ListReturned =>
        \A f \in files : \A i \in ListedAs(f.name) :
            /\ f.readable => listed[i].workspace_num = FirstCounting(f.content)
            /\ f = FileA => listed[i].workspace_num = Some(3)
            /\ f = FileB => listed[i].workspace_num = None
            /\ f = FileD => listed[i].workspace_num = None
            /\ f = FileE => listed[i].workspace_num = Some(7)

\* a script whose third directive is the first to parse was listed with it,
\* next to a script none of whose directives parses
C13_Witness ==
    /\ ListReturned
    /\ {FileA, FileD} \subseteq files
    /\ \E i \in ListedAs(FileA.name) : listed[i].workspace_num = Some(3)
    /\ \E i \in ListedAs(FileD.name) : listed[i].workspace_num = None

(***************************************************************************)
(* Properties of the generator's file handling                             *)
(***************************************************************************)
\* C14: when workspace-<short_name>.sh exists as the short name is entered,
\* the generator reports it and returns without writing or chmod-ing: no
\* file of the directory changes.  A file is written only where the target
\* did not exist and the save prompt was answered yes, and what the
\* directory held before keeps its name and content.
C14_NeverOverwrites ==
    [][ /\ (gen'.outcome = "exists" /\ gen.outcome # "exists") =>
              /\ pc = "gen_name"
              /\ pc' = "exit"
              /\ files' = files
              /\ \E f \in files : \E value \in NameAnswers :
                    f.name = WS_PREFIX \o value \o SH_SUFFIX
        /\ (pc = "gen_name" /\ pc' = "gen_add_window") =>
              \A f \in files : f.name # WS_PREFIX \o gen'.short_name \o SH_SUFFIX
        /\ pc' = "gen_write" => pc = "gen_save"
        /\ files' # files => pc \in {"gen_write", "gen_chmod"}
        /\ pc = "gen_write" =>
              /\ \A f \in files : f.name # WS_PREFIX \o gen.short_name \o SH_SUFFIX
              /\ files \subseteq files'
        /\ \A f \in files : \E g \in files' :
              g.name = f.name /\ g.content = f.content /\ g.kind = f.kind
      ]_vars

\* the generator found the target present and returned; the file is as it was
C14_Witness ==
    /\ pc = "exit"
    /\ gen.outcome = "exists"
    /\ gen.result = "ok"
    /\ FileA \in files

\* the file name with one trailing .sh removed, then one leading workspace-
ShortNameOnce(name) ==
    LET no_ext == IF EndsWith(name, SH_SUFFIX)
                  THEN SubSeq(name, 1, Len(name) - Len(SH_SUFFIX))
                  ELSE name
    IN  IF StartsWith(no_ext, WS_PREFIX)
        THEN SubSeq(no_ext, Len(WS_PREFIX) + 1, Len(no_ext))
        ELSE no_ext

\* C15: the short name of every listed entry is its file name with the suffix
\* .sh removed once and then the prefix workspace- removed once
\* (workspace-e.sh.sh gives e.sh), which is the short name the generator
\* saved the script under.
C15_ShortNameStripsOnce ==
    ListReturned =>
        \A i \in 1..Len(listed) :
            /\ listed[i].name_short = ShortNameOnce(listed[i].base_name)
            /\ listed[i].base_name = ScriptName(listed[i].name_short)

(***************************************************************************)
(* Properties of the selection session                                     *)
(***************************************************************************)
\* the session is Running: the loop of run_tui has not been left
Running == tui = "running" /\ ~InRestoration

\* this step handled an event of the loop and recorded it
Handled == Len(trail') = Len(trail) + 1

\* the event this step handled
ThisEvent == trail'[Len(trail')].ev

\* C16: the resolved action is unset in every state where the session is
\* Running; it is set at most once per session, from unset, and only in the
\* step that ends the session by Enter; a session ended by a quit key ends,
\* and returns, with the action unset.
C16_ActionSetOnlyByEnter ==
    [][ /\ Running => app.action = None
        /\ (app'.action # app.action /\ app'.action # None) =>
              /\ app.action = None
              /\ Running
              /\ pc = "tui_read"
              /\ Handled
              /\ ThisEvent = "Enter"
              /\ pc' = "tui_disable_raw"
        /\ (Running /\ Handled /\ ThisEvent \in QuitKeys) =>
              /\ pc' = "tui_disable_raw"
              /\ app'.action = None
        /\ (InRestoration /\ LastEvent.ev \in QuitKeys) =>
              /\ app.action = None
              /\ tui' = "ok" => ret' = Some(<<app.workspaces, None>>)
      ]_vars

\* a session that saw navigation and was ended by Enter holds its action
C16_Witness ==
    /\ InRestoration
    /\ Len(trail) >= 2
    /\ LastEvent.ev = "Enter"
    /\ trail[1].ev \in DownKeys
    /\ app.action # None

\* C17: an input that is no quit, move-down, move-up or Enter (another key, a
\* non-key event such as a resize, a poll timeout) leaves cursor, entries
\* and action as they were and the session Running; move-down and move-up
\* change nothing but the cursor.
C17_OtherInputIgnored ==
    [][ /\ (Running /\ Handled /\
            ThisEvent \notin QuitKeys \cup DownKeys \cup UpKeys \cup {"Enter"}) =>
              /\ app' = app
              /\ tui' = "running"
              /\ pc' \in {"tui_draw", "tui_poll", "tui_read"}
        /\ (Running /\ Handled /\ ThisEvent \in DownKeys \cup UpKeys) =>
              /\ app'.workspaces = app.workspaces
              /\ app'.action = app.action
              /\ tui' = "running"
              /\ pc' \in {"tui_draw", "tui_poll", "tui_read"}
      ]_vars

\* a session running after an ignored key, a resize and a poll timeout, the
\* cursor still on the first row
C17_Witness ==
    /\ Running
    /\ Len(trail) = 3
    /\ {trail[i].ev : i \in 1..3} = {"x", "Resize", "Timeout"}
    /\ app.selected = 0
    /\ app.action = None

\* the entries and the action in the value run_tui returned
RetEntries == ret[1][1]
RetAction == ret[1][2]

\* C18: every Launch(i) run_tui returns has i below the length of the
\* entries returned with it, and i is the row that was highlighted when Enter
\* was pressed; so main's lookup by index never misses: launch_script is
\* called with the entry at that row, and the script spawned is that entry's.
C18_LaunchIndexValid ==
    /\ (InRestoration /\ app.action # None /\ app.action[1][1] = "Launch") =>
          /\ LastEvent.ev = "Enter"
          /\ frame.highlight = Some(app.action[1][2])
          /\ frame.rows = Len(app.workspaces) + 1
          /\ app.action[1][2] < Len(app.workspaces)
          /\ app.workspaces = listed
    /\ ReturnedLaunch =>
          /\ RetAction[1][2] < Len(RetEntries)
          /\ frame.highlight = Some(RetAction[1][2])
          /\ RetEntries = listed
          /\ PastDispatch =>
                /\ calls.launch = 1
                /\ launch.entry = Some(listed[RetAction[1][2] + 1])
          /\ child.state # "none" =>
                child.script = Some(listed[frame.highlight[1] + 1].full_path)

\* the second of two listed scripts was highlighted, chosen and spawned
C18_Witness ==
    /\ ReturnedLaunch
    /\ Len(RetEntries) = 2
    /\ RetAction = Some(Launch(1))
    /\ child.state = "running"
    /\ child.script = Some(FileB.name)

(***************************************************************************)
(* Generator and listing together                                          *)
(***************************************************************************)
\* the generator holds script text: from the header to the end of the run
HasContent == gen.content # <<>>

\* C19: the generator accepts only workspace numbers n >= 1 (zero, negative
\* and non-numeric answers are asked again), and whatever window-rule
\* answers follow, a command starting with `hyprctl dispatch workspace`
\* included, parse_workspace_num on the generated text, and on the file saved
\* with it, gives Some(n).
C19_GeneratedScriptParsesBack ==
    /\ pc \in {"gen_name", "gen_add_window", "gen_field", "gen_save",
               "gen_write", "gen_chmod"} => gen.num >= 1
    /\ HasContent =>
          /\ gen.num >= 1
          /\ ScanLines(Lines(gen.content)) = Some(gen.num)
    /\ gen.outcome = "saved" =>
          \E f \in files :
              /\ f.name = ScriptName(gen.short_name)
              /\ f.content = gen.content
              /\ parse_workspace_num(f) = Some(gen.num)
              /\ MakeEntry(f).workspace_num = Some(gen.num)

\* a script for workspace 12, entered as +12, with a window whose command is
\* itself a dispatch directive for workspace 9, was saved
C19_Witness ==
    /\ gen.outcome = "saved"
    /\ gen.num = 12
    /\ gen.window_index = 2
    /\ \E i \in 1..Len(gen.content) - Len(DISPATCH) - 1 :
          SubSeq(gen.content, i, i + Len(DISPATCH) + 1) = DISPATCH \o <<" ", "9">>

(***************************************************************************)
(* Termination                                                             *)
(***************************************************************************)
\* the run had no I/O failure and no panic
NoFailure == err = None

\* C20: absent I/O errors the session ends exactly when a quit key or Enter
\* is delivered: no poll timeout, navigation key or ignored input ends it,
\* and a quit key or Enter ends it in that step.  Once such a key has been
\* delivered, run_tui eventually returns, with the terminal restored if
\* nothing failed, and the process eventually exits, with status 0 if
\* nothing failed.
C20_EndsOnlyOnQuitOrEnter ==
    /\ [][ /\ (Running /\ ~Running' /\ tui' # "err") =>
                 /\ pc = "tui_read"
                 /\ Handled
                 /\ ThisEvent \in QuitKeys \cup {"Enter"}
           /\ (Running /\ Handled /\ ThisEvent \in QuitKeys \cup {"Enter"}) =>
                 InRestoration'
           /\ (Running /\ Handled /\ ThisEvent \notin QuitKeys \cup {"Enter"}) =>
                 Running'
         ]_vars
    /\ InRestoration ~> (TuiReturned /\ (NoFailure => tui = "ok" /\ term = NormalTerm))
    /\ InRestoration ~> (pc = "exit" /\ (NoFailure => exitCode = Some(0)))

\* after timeouts and navigation the session was ended by Enter, the
\* terminal restored, the script run and waited for, and the process exited
C20_Witness ==
    /\ pc = "exit"
    /\ NoFailure
    /\ tui = "ok"
    /\ term = NormalTerm
    /\ launch.waited = "ok"
    /\ exitCode = Some(0)

====
